---- MODULE Spec2Model ----
\* State machine of the camera screen (CameraScreen, src/unnamed/part_000):
\* the React state of the component, the processFrame invocations in flight
\* (each suspended at one of its three awaits) and the auto-scan loop
\* instances created by the useEffect on isAutoScan.
\*
\* One action is one synchronous JavaScript segment: an event handler, or the
\* code between two awaits. All setState calls of one segment are batched, and
\* the re-render (with the effect it triggers) is part of the segment.
\* A closure sees the state of the render that created it: the values a
\* processFrame invocation captured are stored in its request record.
EXTENDS Integers, Sequences, FiniteSets, TLC

\* ---------------------------------------------------------------- bounds
MaxReq == 2          \* processFrame invocations dispatched in one behaviour
MaxCycles == 3       \* the same, while the clock runs
MaxNow == 134        \* the clock stops there (ms)

\* ---------------------------------------------------------------- inputs
ScreenW == 1080      \* Dimensions.get('window').width
ScreenH == 1920      \* Dimensions.get('window').height

Photos == {<<640, 480>>, <<1080, 1920>>}     \* photo.width, photo.height
Labels == {"deer"}                           \* best_match.label
RawBoxes == {<<100, 100, 200, 200>>}         \* best_match.bbox
NoBBox == <<>>                               \* best_match without a bbox field
FpsValues == {0, 15}                         \* metrics.fps (0: absent)
TickSteps == {27, 40}                        \* ms between two segments

\* Devices, photo sizes and boxes for the coordinate mapping alone.
MapWindows == {<<1080, 1920>>, <<412, 915>>, <<390, 844>>, <<375, 667>>, <<768, 1024>>}
MapPhotos ==
    {<<640, 480>>, <<1080, 1920>>, <<4032, 3024>>, <<3264, 2448>>, <<588, 784>>,
     <<0, 480>>, <<640, 0>>}                 \* the last two: a photo without pixels
MapBoxes ==
    {<<100, 100, 200, 200>>, <<17, 33, 299, 123>>}
    \cup {<<0, 0, p[1], p[2]>> : p \in {q \in MapPhotos : q[1] > 0 /\ q[2] > 0}}
NoLabel == "undefined"                       \* best_match without a label field
ShortBoxes == {<<100, 100>>}                 \* a bbox of fewer than four numbers
MapBodies ==
    [skipped : {FALSE}, match : {TRUE}, label : Labels \cup {NoLabel},
     bbox : MapBoxes \cup ShortBoxes, fps : {0}]

\* Response bodies (the parsed JSON `data`).
SkippedBody == [skipped |-> TRUE, match |-> FALSE, label |-> "", bbox |-> NoBBox, fps |-> 0]
Bodies ==
    {SkippedBody}
    \cup [skipped : {FALSE}, match : {FALSE}, label : {""}, bbox : {NoBBox}, fps : FpsValues]
    \cup [skipped : {FALSE}, match : {TRUE}, label : Labels,
          bbox : RawBoxes \cup {NoBBox}, fps : FpsValues]

\* error.message of the exceptions processFrame can catch.
MsgStatus == "Status: 500"
MsgNetwork == "Network request failed"
MsgAbort == "Aborted"
MsgJson == "JSON Parse error: Unexpected token"
MsgCapture == "Failed to capture image"
MsgType == "Cannot read property 'toUpperCase' of undefined"
FetchErrors == {MsgNetwork, MsgAbort}

\* PREDICT_ENDPOINT and STREAM_ENDPOINT, as paths of API_URL
PredictEndpoint == "/predict"
StreamEndpoint == "/stream"

\* setTimeout(() => controller.abort(), isAutoScan ? 5000 : 15000)
StreamTimeout == 5000
ManualTimeout == 15000

\* ---------------------------------------------------------------- numbers
\* JavaScript numbers are IEEE 754 doubles. A natural number of any size is the
\* sequence of its bits, least significant first, without leading zeros; a
\* double is <<sign, mantissa, exponent>> with value sign * mantissa *
\* 2^exponent, the mantissa odd and of at most Prec bits (zero: Zero). The
\* exponents of the coordinate arithmetic stay far from the limits of the format.
\* The values that are no numbers have an empty mantissa and exponent 1:
\* NaN, and Infinity and -Infinity by their sign.
Prec == 53
Zero == <<0, <<>>, 0>>
NaN == <<0, <<>>, 1>>
Infinity == <<1, <<>>, 1>>

IsNaN(x) == x = NaN
IsInfinite(x) == x[2] = <<>> /\ x[3] = 1 /\ x[1] # 0
IsFinite(x) == ~IsNaN(x) /\ ~IsInfinite(x)

Abs(a) == IF a < 0 THEN -a ELSE a
Min(a, b) == IF a < b THEN a ELSE b
Bit(a, i) == IF i <= Len(a) THEN a[i] ELSE 0

\* the bits of an integer 0 <= n < 2^30
NatBits(n) ==
    LET k == CHOOSE k \in 0..30 : n < 2^k /\ (k = 0 \/ n >= 2^(k - 1))
    IN  SubSeq([i \in 1..k |-> (n \div 2^(i - 1)) % 2], 1, k)

\* without the leading zeros
Trim(a) ==
    IF \A i \in 1..Len(a) : a[i] = 0 THEN <<>>
    ELSE SubSeq(a, 1, CHOOSE i \in 1..Len(a) :
                         a[i] = 1 /\ \A j \in (i + 1)..Len(a) : a[j] = 0)

Shl(a, k) == IF a = <<>> THEN a ELSE [i \in 1..k |-> 0] \o a

\* Sums, differences and products are computed limb by limb: limb k of a is
\* the integer of its bits (k - 1) * LimbBits + 1 .. k * LimbBits.
LimbBits == 13
Base == 8192

Limb(a, k) ==
    LET v[i \in 0..LimbBits] ==
            IF i = 0 THEN 0 ELSE v[i - 1] + Bit(a, (k - 1) * LimbBits + i) * 2^(i - 1)
    IN  v[LimbBits]

Limbs(a) == (Len(a) + LimbBits - 1) \div LimbBits

\* the first n limbs of a
ToLimbs(a, n) == SubSeq([k \in 1..n |-> Limb(a, k)], 1, n)

\* the bits of the limbs f, without leading zeros
FromLimbs(f) ==
    Trim(SubSeq([i \in 1..(Len(f) * LimbBits) |->
                    (f[(i - 1) \div LimbBits + 1] \div 2^((i - 1) % LimbBits)) % 2],
                1, Len(f) * LimbBits))

\* a + b, c[k] the carry out of limb k
BAdd(a, b) ==
    LET n == (IF Limbs(a) < Limbs(b) THEN Limbs(b) ELSE Limbs(a)) + 1
        la == ToLimbs(a, n)
        lb == ToLimbs(b, n)
        c[k \in 0..n] == IF k = 0 THEN 0 ELSE (la[k] + lb[k] + c[k - 1]) \div Base
    IN  FromLimbs(SubSeq([k \in 1..n |-> (la[k] + lb[k] + c[k - 1]) % Base], 1, n))

\* a - b for a >= b, c[k] the borrow from limb k + 1
BSub(a, b) ==
    LET n == Limbs(a)
        la == ToLimbs(a, n)
        lb == ToLimbs(b, n)
        c[k \in 0..n] ==
            IF k = 0 THEN 0 ELSE IF la[k] - lb[k] - c[k - 1] < 0 THEN 1 ELSE 0
    IN  FromLimbs(SubSeq([k \in 1..n |-> (la[k] - lb[k] - c[k - 1]) % Base], 1, n))

BLess(a, b) ==
    \/ Len(a) < Len(b)
    \/ /\ Len(a) = Len(b)
       /\ \E i \in 1..Len(a) :
             a[i] < b[i] /\ \A j \in (i + 1)..Len(a) : a[j] = b[j]

\* the integer with bits a (below 2^30)
BitsNat(a) == Limb(a, 1) + Base * Limb(a, 2) + Base * Base * Limb(a, 3)

\* a * m for an integer 0 <= m < 2^15, c[k] the carry out of limb k
BMulInt(a, m) ==
    LET n == Limbs(a) + 2
        la == ToLimbs(a, n)
        c[k \in 0..n] == IF k = 0 THEN 0 ELSE (la[k] * m + c[k - 1]) \div Base
    IN  FromLimbs(SubSeq([k \in 1..n |-> (la[k] * m + c[k - 1]) % Base], 1, n))

\* a * b, the shorter factor below 2^15
BMul(a, b) == BMulInt(b, BitsNat(a))

\* the double with value s * n * 2^e, n of at most Prec bits
Canon(s, n, e) ==
    IF n = <<>> THEN Zero
    ELSE LET z == CHOOSE i \in 1..Len(n) : n[i] = 1 /\ \A j \in 1..(i - 1) : n[j] = 0
         IN  <<s, SubSeq(n, z, Len(n)), e + z - 1>>

\* the double nearest to s * n * 2^e, or to a value between that and
\* s * (n + 1) * 2^e when sticky; ties go to the even mantissa
Round(s, n, e, sticky) ==
    IF Len(n) <= Prec THEN Canon(s, n, e)
    ELSE LET k == Len(n) - Prec
             q == SubSeq(n, k + 1, Len(n))
             rest == sticky \/ \E i \in 1..(k - 1) : n[i] = 1
             up == n[k] = 1 /\ (rest \/ q[1] = 1)
         IN  Canon(s, IF up THEN BAdd(q, <<1>>) ELSE q, e + k)

\* an integer as a Number
DInt(n) == Canon(IF n < 0 THEN -1 ELSE 1, NatBits(Abs(n)), 0)

DNeg(x) == <<-x[1], x[2], x[3]>>

\* x + y
DAdd(x, y) ==
    IF IsNaN(x) \/ IsNaN(y) THEN NaN
    ELSE IF IsInfinite(x) THEN (IF IsInfinite(y) /\ y[1] # x[1] THEN NaN ELSE x)
    ELSE IF IsInfinite(y) THEN y
    ELSE IF x[1] = 0 THEN y
    ELSE IF y[1] = 0 THEN x
    ELSE LET e == Min(x[3], y[3])
             nx == Shl(x[2], x[3] - e)
             ny == Shl(y[2], y[3] - e)
         IN  IF x[1] = y[1] THEN Round(x[1], BAdd(nx, ny), e, FALSE)
             ELSE IF nx = ny THEN Zero
             ELSE IF BLess(nx, ny) THEN Round(y[1], BSub(ny, nx), e, FALSE)
             ELSE Round(x[1], BSub(nx, ny), e, FALSE)

\* x - y
DSub(x, y) == DAdd(x, DNeg(y))

\* x * y
DMul(x, y) ==
    IF IsNaN(x) \/ IsNaN(y) THEN NaN
    ELSE IF IsInfinite(x) \/ IsInfinite(y)
    THEN (IF x[1] = 0 \/ y[1] = 0 THEN NaN ELSE <<x[1] * y[1], <<>>, 1>>)
    ELSE IF x[1] = 0 \/ y[1] = 0 THEN Zero
    ELSE Round(x[1] * y[1],
               IF Len(x[2]) <= Len(y[2]) THEN BMul(x[2], y[2]) ELSE BMul(y[2], x[2]),
               x[3] + y[3], FALSE)

\* x / 2
DHalf(x) == IF x[1] = 0 \/ IsInfinite(x) THEN x ELSE <<x[1], x[2], x[3] - 1>>

\* a / b for integers 0 <= a < 2^30 and 0 <= b < 2^17: long division, one limb
\* of the fraction at a time, r[k] the remainder after k limbs; DivLimbs limbs
\* give a quotient of more than Prec + 2 bits when a > 0. A division by zero
\* raises nothing: 0 / 0 is NaN and a / 0 is Infinity.
DivLimbs == 6

DivInt(a, b) ==
    IF b = 0 THEN (IF a = 0 THEN NaN ELSE Infinity) ELSE
    LET r[k \in 0..DivLimbs] == IF k = 0 THEN a % b ELSE (r[k - 1] * Base) % b
        whole == ToLimbs(NatBits(a \div b), 3)
        q == SubSeq([k \in 1..(DivLimbs + 3) |->
                        IF k <= DivLimbs THEN (r[DivLimbs - k] * Base) \div b
                        ELSE whole[k - DivLimbs]], 1, DivLimbs + 3)
    IN  Round(1, FromLimbs(q), -(DivLimbs * LimbBits), r[DivLimbs] # 0)

\* x <= y (the difference has the sign of the exact difference); false when
\* either is NaN
DLeq(x, y) ==
    /\ ~IsNaN(x)
    /\ ~IsNaN(y)
    /\ x = y \/ DSub(x, y)[1] < 0

\* Math.max(x, y)
DMax(x, y) == IF IsNaN(x) \/ IsNaN(y) THEN NaN ELSE IF DLeq(x, y) THEN y ELSE x

\* ---------------------------------------------------------------- mapping
\* view is <<SCREEN_WIDTH, SCREEN_HEIGHT>>, photo is <<photo.width, photo.height>>
\* a scale that fits the image inside the screen
ScaleMin(view, photo) ==
    LET sx == DivInt(view[1], photo[1])
        sy == DivInt(view[2], photo[2])
    IN  IF DLeq(sx, sy) THEN sx ELSE sy

\* const scale = Math.max(SCREEN_WIDTH / photo.width, SCREEN_HEIGHT / photo.height)
Scale(view, photo) ==
    DMax(DivInt(view[1], photo[1]), DivInt(view[2], photo[2]))

\* an offset that is not halved
OffsetXUncentered(view, photo) ==
    DSub(DInt(view[1]), DMul(DInt(photo[1]), Scale(view, photo)))

\* const offsetX = (SCREEN_WIDTH - photo.width * scale) / 2
OffsetX(view, photo) ==
    DHalf(DSub(DInt(view[1]), DMul(DInt(photo[1]), Scale(view, photo))))

\* an offset that is not halved
OffsetYUncentered(view, photo) ==
    DSub(DInt(view[2]), DMul(DInt(photo[2]), Scale(view, photo)))

\* const offsetY = (SCREEN_HEIGHT - photo.height * scale) / 2
OffsetY(view, photo) ==
    DHalf(DSub(DInt(view[2]), DMul(DInt(photo[2]), Scale(view, photo))))

\* const [bx1, by1, bx2, by2] = match.bbox: an element the array does not have
\* is undefined, and undefined in arithmetic is NaN
Coord(b, i) == IF i <= Len(b) THEN DInt(b[i]) ELSE NaN

\* const scaledBox = [bx1*scale+offsetX, by1*scale+offsetY, bx2*scale+offsetX, by2*scale+offsetY]
ScaledBox(view, photo, b) ==
    LET scale == Scale(view, photo)
        offsetX == OffsetX(view, photo)
        offsetY == OffsetY(view, photo)
    IN  << DAdd(DMul(Coord(b, 1), scale), offsetX),
           DAdd(DMul(Coord(b, 2), scale), offsetY),
           DAdd(DMul(Coord(b, 3), scale), offsetX),
           DAdd(DMul(Coord(b, 4), scale), offsetY) >>

\* scaledBox of every device, photo size and box of the inputs, computed once
MapInputs ==
    (MapWindows \cup {<<ScreenW, ScreenH>>}) \X (MapPhotos \cup Photos)
        \X (MapBoxes \cup ShortBoxes \cup RawBoxes)
ScaledBoxes == [in \in MapInputs |-> ScaledBox(in[1], in[2], in[3])] @@ <<>>

\* ---------------------------------------------------------------- state
VARIABLES
    window,         \* Dimensions.get('window'): <<SCREEN_WIDTH, SCREEN_HEIGHT>>
    scanning,       \* useState(false)
    result,         \* useState(null)
    isAutoScan,     \* useState(false)
    isConnected,    \* useState(true)
    logs,           \* useState([...]), newest first
    frameCounter,   \* useState(0)
    fps,            \* useState(0)
    activeBox,      \* useState(null)
    reqs,           \* processFrame invocations suspended at an await
    loops,          \* auto-scan loop instances, one per effect run with isAutoScan
    nreq,           \* processFrame invocations dispatched so far
    alerts,         \* Alert.alert calls so far
    now,            \* Date.now(), in ms since the component was mounted
    ev              \* the segment that ran last (observation only)

vars == <<window, now, scanning, result, isAutoScan, isConnected, logs, frameCounter, fps,
          activeBox, reqs, loops, nreq, alerts, ev>>

NullResult == [kind |-> "null", label |-> "", bbox |-> NoBBox]
NoMatchResult == [kind |-> "nomatch", label |-> "No Match", bbox |-> NoBBox]
MatchResult(d) == [kind |-> "match", label |-> d.label, bbox |-> d.bbox]

NullBox == [set |-> FALSE, bbox |-> <<>>, label |-> ""]
Box(b, l) == [set |-> TRUE, bbox |-> b, label |-> l]

LogCapacity == 6

\* an addLog that evicts the newest older entry instead of the oldest
addLogDropsSecond(prev, text) ==
    IF Len(prev) < LogCapacity THEN <<text>> \o prev
    ELSE <<text>> \o SubSeq(prev, 2, Len(prev))

\* const addLog = (text) => setLogs(prev => [text, ...prev].slice(0, 6))
addLog(prev, text) == SubSeq(<<text>> \o prev, 1, IF Len(prev) + 1 < LogCapacity THEN Len(prev) + 1 ELSE LogCapacity)

\* error.message.substring(0, 20)
Substring20(msg) ==
    CASE msg = MsgNetwork -> "Network request fail"
      [] msg = MsgJson -> "JSON Parse error: Un"
      [] msg = MsgCapture -> "Failed to capture im"
      [] msg = MsgType -> "Cannot read property"
      [] OTHER -> msg

\* what speak() was called with, when it was not called
NoSpeech == <<>>

\* a segment that calls neither Haptics nor speak
Event(op, kind, manual) ==
    [op |-> op, kind |-> kind, manual |-> manual, haptic |-> "none", speech |-> NoSpeech]

\* if (isManualScan) Haptics.impactAsync(Haptics.ImpactFeedbackStyle.Light)
DispatchEvent(manual) ==
    [Event("dispatch", "", manual) EXCEPT !.haptic = IF manual THEN "light" ELSE "none"]

Init ==
    /\ window = <<ScreenW, ScreenH>>
    /\ now = 0
    /\ scanning = FALSE
    /\ result = NullResult
    /\ isAutoScan = FALSE
    /\ isConnected = TRUE
    \* the mount run of the effect (isAutoScan = false) has logged MANUAL MODE
    /\ logs = << <<"MODE", "MANUAL MODE">>, <<"SYS", "SYSTEM INITIALIZED...">>,
                 <<"SYS", "SENSORS ONLINE">> >>
    /\ frameCounter = 0
    /\ fps = 0
    /\ activeBox = NullBox
    /\ reqs = <<>>
    /\ loops = <<>>
    /\ nreq = 0
    /\ alerts = 0
    /\ ev = Event("mount", "", FALSE)

\* ---------------------------------------------------------------- React state
\* The state the setters of one segment write, as one record: a segment is a
\* function from the committed state to the next committed state.
St ==
    [scanning |-> scanning, result |-> result, isConnected |-> isConnected,
     logs |-> logs, frameCounter |-> frameCounter, fps |-> fps,
     activeBox |-> activeBox, alerts |-> alerts]

Commit(s) ==
    /\ scanning' = s.scanning
    /\ result' = s.result
    /\ isConnected' = s.isConnected
    /\ logs' = s.logs
    /\ frameCounter' = s.frameCounter
    /\ fps' = s.fps
    /\ activeBox' = s.activeBox
    /\ alerts' = s.alerts

\* match.label.toUpperCase()
ToUpperCase(l) == CASE l = "deer" -> "DEER" [] l = "wolf" -> "WOLF" [] OTHER -> l

\* data.metrics.fps.toFixed(1)
ToFixed1(f) == CASE f = 15 -> "15.0" [] f = 30 -> "30.0" [] OTHER -> "0.0"

\* ---------------------------------------------------------------- processFrame
\* A request record is one processFrame invocation: manual is its argument
\* isManualScan, auto and idx are the isAutoScan and frameCounter of the render
\* whose closure was called, loop is the loop instance awaiting it (0: none),
\* pc the await it is suspended at, photo the captured frame's dimensions.
\* timeout is the delay of the abort timer while it is armed (0: not armed).
\* endpoint and frame_idx are the URL fetched and the frame_idx field of the
\* form sent, once fetch is called (NoFrameIdx: the form has no such field).
\* startTime is its Date.now() at dispatch.
NoPhoto == <<0, 0>>
NoFrameIdx == -1
Request(manual, auto, idx, loop) ==
    [manual |-> manual, auto |-> auto, idx |-> idx, loop |-> loop,
     pc |-> "capture", photo |-> NoPhoto, timeout |-> 0,
     endpoint |-> "", frame_idx |-> NoFrameIdx, startTime |-> now]

\* every request fetched from the manual endpoint
EndpointAlwaysPredict(auto) == PredictEndpoint

\* const endpoint = isAutoScan ? STREAM_ENDPOINT : PREDICT_ENDPOINT
Endpoint(auto) == IF auto THEN StreamEndpoint ELSE PredictEndpoint

\* if (isAutoScan) formData.append('frame_idx', frameCounter.toString())
FrameIdxField(auto, idx) == IF auto THEN idx ELSE NoFrameIdx

\* an abort timer armed with the streaming delay whatever the mode
TimeoutMsAlwaysStream(auto) == StreamTimeout

\* isAutoScan ? 5000 : 15000
TimeoutMs(auto) == IF auto THEN StreamTimeout ELSE ManualTimeout

\* if (scanning && !isAutoScan) return;   (cameraRef.current is set while the
\* controls that call processFrame are rendered)
Refused(sc, auto) == sc /\ ~auto

\* setScanning(true); if (isManualScan) setResult(null);
OnDispatch(s, manual) ==
    [s EXCEPT !.scanning = TRUE,
              !.result = IF manual THEN NullResult ELSE @]

\* a catch block that alerts whatever isManualScan is
OnCatchAlwaysAlert(s, r, msg) ==
    [s EXCEPT !.isConnected = FALSE,
              !.logs = addLog(@, <<"ERROR", Substring20(msg)>>),
              !.alerts = @ + 1,
              !.scanning = FALSE]

\* a catch block that leaves the connectivity flag alone
OnCatchStaysOnline(s, r, msg) ==
    [s EXCEPT !.logs = addLog(@, <<"ERROR", Substring20(msg)>>),
              !.alerts = IF r.manual THEN @ + 1 ELSE @,
              !.scanning = FALSE]

\* catch (error) { setIsConnected(false); addLog(`ERROR: ...`);
\*                 if (isManualScan) Alert.alert(...) } finally { setScanning(false) }
OnCatch(s, r, msg) ==
    [s EXCEPT !.isConnected = FALSE,
              !.logs = addLog(@, <<"ERROR", Substring20(msg)>>),
              !.alerts = IF r.manual THEN @ + 1 ELSE @,
              !.scanning = FALSE]

\* a skip branch that forgets to count the frame
OnSkippedNotCounted(s) ==
    [s EXCEPT !.scanning = FALSE]

\* a skip branch that falls into the error path
OnSkippedAsError(s) ==
    [s EXCEPT !.scanning = FALSE, !.frameCounter = @ + 1, !.isConnected = FALSE,
              !.logs = addLog(@, <<"ERROR", "skipped">>)]

\* if (data.skipped) { setScanning(false); setFrameCounter(prev => prev + 1); return; }
\* and the finally block
OnSkipped(s) ==
    [s EXCEPT !.scanning = FALSE, !.frameCounter = @ + 1]

\* a frame counter set from the server's rate
OnMetricsSetsCounter(s, r, data) ==
    IF r.auto /\ data.fps # 0
    THEN [s EXCEPT !.fps = data.fps, !.frameCounter = data.fps,
                   !.logs = addLog(@, <<"FPS", ToFixed1(data.fps)>>)]
    ELSE s

\* if (isAutoScan && data.metrics?.fps) { setFps(...); addLog(`FPS: ...`) }
OnMetrics(s, r, data) ==
    IF r.auto /\ data.fps # 0
    THEN [s EXCEPT !.fps = data.fps, !.logs = addLog(@, <<"FPS", ToFixed1(data.fps)>>)]
    ELSE s

\* a match whose box is mapped with the constants of a full-scale frame
OnMatchFullScaleFrame(s, r, data) ==
    IF data.match
    THEN [s EXCEPT !.result = MatchResult(data),
                   !.activeBox = IF data.bbox # NoBBox
                                 THEN Box(ScaledBoxes[<<window, <<1080, 1920>>, data.bbox>>],
                                          data.label)
                                 ELSE @,
                   !.logs = IF r.auto
                            THEN addLog(@, <<"DETECTED", ToUpperCase(data.label)>>)
                            ELSE @]
    ELSE [s EXCEPT !.result = NoMatchResult, !.activeBox = NullBox]

\* a match that is logged whatever the mode of its request
OnMatchAlwaysLogs(s, r, data) ==
    IF data.match
    THEN [s EXCEPT !.result = MatchResult(data),
                   !.activeBox = IF data.bbox # NoBBox
                                 THEN Box(ScaledBoxes[<<window, r.photo, data.bbox>>], data.label)
                                 ELSE @,
                   !.logs = addLog(@, <<"DETECTED", ToUpperCase(data.label)>>)]
    ELSE [s EXCEPT !.result = NoMatchResult, !.activeBox = NullBox]

\* if (match) { setResult(match); if (match.bbox) setActiveBox({bbox: scaledBox, label});
\*              if (isAutoScan) addLog(`DETECTED: ...`) }
\* else { setResult({label: 'No Match', ...}); setActiveBox(null) }
OnMatch(s, r, data) ==
    IF data.match
    THEN [s EXCEPT !.result = MatchResult(data),
                   !.activeBox = IF data.bbox # NoBBox
                                 THEN Box(ScaledBoxes[<<window, r.photo, data.bbox>>], data.label)
                                 ELSE @,
                   !.logs = IF r.auto
                            THEN addLog(@, <<"DETECTED", ToUpperCase(data.label)>>)
                            ELSE @]
    ELSE [s EXCEPT !.result = NoMatchResult, !.activeBox = NullBox]

\* if (isAutoScan) setFrameCounter(prev => prev + 1);
\* if (isAutoScan && processingTime < 100) addLog(`PROCESSING: ...`);  finally
OnTail(s, r, fast) ==
    [s EXCEPT !.frameCounter = IF r.auto THEN @ + 1 ELSE @,
              !.logs = IF r.auto /\ fast THEN addLog(@, <<"PROCESSING", "<100ms">>) ELSE @,
              !.scanning = FALSE]

\* match.label.toUpperCase() throws a TypeError when the match has no label
Throws(r, data) == ~data.skipped /\ data.match /\ r.auto /\ data.label = NoLabel

\* setResult(match) and setActiveBox(...) are called before the statement that
\* throws, and the catch block does not undo them
OnThrow(s, r, data) ==
    OnCatch([OnMetrics(s, r, data) EXCEPT
                !.result = MatchResult(data),
                !.activeBox = IF data.bbox # NoBBox
                              THEN Box(ScaledBoxes[<<window, r.photo, data.bbox>>], data.label)
                              ELSE @],
            r, MsgType)

\* the segment after `await response.json()`
OnData(s, r, data, fast) ==
    IF data.skipped
    THEN OnSkipped(s)
    ELSE IF Throws(r, data)
    THEN OnThrow(s, r, data)
    ELSE OnTail(OnMatch(OnMetrics(s, r, data), r, data), r, fast)

OutcomeKind(data) ==
    IF data.skipped THEN "skipped" ELSE IF data.match THEN "match" ELSE "nomatch"

\* a match that is announced for every request, sampled or not
SpeaksAlways(r, sample) == TRUE

\* a match that is announced for sampled requests only, manual ones included
SpeaksSampled(r, sample) == sample

\* isManualScan || (isAutoScan && Math.random() > 0.9), sample being the
\* outcome of Math.random() > 0.9
Speaks(r, sample) == r.manual \/ (r.auto /\ sample)

\* Haptics.notificationAsync(Success);  if (...) speak(`Target Confirmed. ${match.label}`)
\* Both run before the statement that throws when the label is missing.
Feedback(e, r, data, sample) ==
    IF ~data.skipped /\ data.match
    THEN [e EXCEPT !.haptic = "success",
                   !.speech = IF Speaks(r, sample)
                              THEN <<"Target Confirmed", data.label>>
                              ELSE NoSpeech]
    ELSE e

\* ---------------------------------------------------------------- loop
\* A loop instance is one run of the effect with isAutoScan = true: isActive is
\* its local flag, fc the frameCounter its processFrame closure captured, pc
\* whether it awaits processFrame, has a timer pending, or has returned.
\* lastFrameTime is the effect's variable, now and delay are the constants of
\* the cycle that ran last.
\* const targetInterval = 1000 / 15
TargetInterval == DivInt(1000, 15)

\* a delay that is the whole interval whatever time has passed
DelayFixed(t, last) == TargetInterval

\* const elapsed = now - lastFrameTime;
\* const delay = Math.max(0, targetInterval - elapsed)
Delay(t, last) == DMax(Zero, DSub(TargetInterval, DInt(t - last)))

\* a loop whose next cycle is armed when the frame is issued
LoopArmedAtIssue(fc) ==
    [isActive |-> TRUE, pc |-> "timer", fc |-> fc,
     lastFrameTime |-> now, now |-> now, delay |-> Delay(now, now)]

\* if (isAutoScan) { lastFrameTime = Date.now(); loop(); ... }
Loop(fc) ==
    [isActive |-> TRUE, pc |-> "await", fc |-> fc,
     lastFrameTime |-> now, now |-> now, delay |-> Delay(now, now)]

\* a cleanup that leaves the loop's flag set
CleanupKeepsActive(ls) == ls

\* return () => { isActive = false; }
Cleanup(ls) == [i \in DOMAIN ls |-> [ls[i] EXCEPT !.isActive = FALSE]]

\* a loop that a finished frame never re-arms
AfterAwaitNeverRearms(ls, r) ==
    IF r.loop = 0 THEN ls ELSE [ls EXCEPT ![r.loop].pc = "done"]

\* a loop that re-arms its timer whatever its flag says
AfterAwaitAlwaysRearms(ls, r) ==
    IF r.loop = 0 THEN ls
    ELSE [ls EXCEPT ![r.loop].pc = "timer", ![r.loop].lastFrameTime = now]

\* after `await processFrame(false)`: lastFrameTime = Date.now();
\* if (isActive && isAutoScan) setTimeout(loop, delay)
\* (isAutoScan is the effect's own render value, true for every loop instance)
AfterAwait(ls, r) ==
    IF r.loop = 0 THEN ls
    ELSE [ls EXCEPT ![r.loop].pc = IF ls[r.loop].isActive THEN "timer" ELSE "done",
                    ![r.loop].lastFrameTime = now]

Without(rs, id) == [i \in DOMAIN rs \ {id} |-> rs[i]]
With(rs, id, r) == [i \in DOMAIN rs \cup {id} |-> IF i = id THEN r ELSE rs[i]]

\* ---------------------------------------------------------------- actions
\* onPress={() => processFrame(true)} of the trigger, rendered while !isAutoScan
ManualTrigger ==
    /\ ~isAutoScan
    /\ UNCHANGED <<window, now>>
    /\ IF Refused(scanning, isAutoScan)
       THEN /\ ev' = Event("refused", "", TRUE)
            /\ UNCHANGED <<scanning, result, isAutoScan, isConnected, logs, frameCounter,
                           fps, activeBox, reqs, loops, nreq, alerts>>
       ELSE /\ nreq < MaxReq
            /\ Commit(OnDispatch(St, TRUE))
            /\ reqs' = With(reqs, nreq + 1, Request(TRUE, isAutoScan, frameCounter, 0))
            /\ nreq' = nreq + 1
            /\ ev' = DispatchEvent(TRUE)
            /\ UNCHANGED <<isAutoScan, loops>>

\* an effect body that keeps the box on entering manual mode
OnEnterManualKeepsBox(s) ==
    [s EXCEPT !.logs = addLog(@, <<"MODE", "MANUAL MODE">>)]

\* effect body for isAutoScan = false: addLog("MANUAL MODE"); setActiveBox(null)
OnEnterManual(s) ==
    [s EXCEPT !.logs = addLog(@, <<"MODE", "MANUAL MODE">>), !.activeBox = NullBox]

\* effect body for isAutoScan = true: loop() up to its first await, which runs
\* processFrame(false) up to its first await; addLog("AUTO-SCAN ENABLED")
OnEnterAuto(s) ==
    [OnDispatch(s, FALSE) EXCEPT !.logs = addLog(@, <<"MODE", "AUTO-SCAN ENABLED">>)]

\* onValueChange={() => setIsAutoScan(p => !p)}, the re-render, the cleanup of
\* the previous effect run and the new effect run
ToggleToAuto ==
    /\ ~isAutoScan
    /\ nreq < MaxReq
    /\ isAutoScan' = TRUE
    /\ loops' = Append(Cleanup(loops), Loop(frameCounter))
    /\ reqs' = With(reqs, nreq + 1, Request(FALSE, TRUE, frameCounter, Len(loops) + 1))
    /\ nreq' = nreq + 1
    /\ Commit(OnEnterAuto(St))
    /\ ev' = Event("toAuto", "", FALSE)
    /\ UNCHANGED <<window, now>>

\* a toggle to manual mode that drops the streaming requests in flight
ToggleToManualCancels ==
    /\ isAutoScan
    /\ isAutoScan' = FALSE
    /\ loops' = Cleanup(loops)
    /\ reqs' = [id \in {i \in DOMAIN reqs : reqs[i].manual} |-> reqs[id]]
    /\ Commit(OnEnterManual(St))
    /\ ev' = Event("toManual", "", FALSE)
    /\ UNCHANGED <<window, now, nreq>>

ToggleToManual ==
    /\ isAutoScan
    /\ isAutoScan' = FALSE
    /\ loops' = Cleanup(loops)
    /\ Commit(OnEnterManual(St))
    /\ ev' = Event("toManual", "", FALSE)
    /\ UNCHANGED <<window, now, reqs, nreq>>

\* the timer armed by setTimeout(loop, delay) fires: loop() up to its first
\* await, while fewer than max invocations were dispatched
TimerFired(l, max) ==
    /\ loops[l].pc = "timer"
    /\ UNCHANGED <<window, now>>
    /\ IF ~loops[l].isActive
       THEN \* if (!isActive || !isAutoScan) { setScanning(false); return; }
            /\ Commit([St EXCEPT !.scanning = FALSE])
            /\ loops' = [loops EXCEPT ![l].pc = "done"]
            /\ ev' = Event("loopExit", "", FALSE)
            /\ UNCHANGED <<isAutoScan, reqs, nreq>>
       ELSE /\ nreq < max
            /\ Commit(OnDispatch(St, FALSE))
            /\ loops' = [loops EXCEPT ![l].pc = "await", ![l].now = now,
                                      ![l].delay = Delay(now, loops[l].lastFrameTime)]
            /\ reqs' = With(reqs, nreq + 1, Request(FALSE, TRUE, loops[l].fc, l))
            /\ nreq' = nreq + 1
            /\ ev' = DispatchEvent(FALSE)
            /\ UNCHANGED isAutoScan

TimerFire(l) == TimerFired(l, MaxReq)

\* a request ends in the catch block with error.message = msg
Fail(id, msg) ==
    /\ Commit(OnCatch(St, reqs[id], msg))
    /\ reqs' = Without(reqs, id)
    /\ loops' = AfterAwait(loops, reqs[id])
    /\ ev' = Event("failure", msg, reqs[id].manual)
    /\ UNCHANGED <<window, now, isAutoScan, nreq>>

\* await cameraRef.current.takePictureAsync(...) resolves with a photo: the
\* mapping constants, the form, the abort timer and the call of fetch
Captured(id, p) ==
    /\ reqs[id].pc = "capture"
    /\ reqs' = [reqs EXCEPT ![id].pc = "fetch", ![id].photo = p,
                            ![id].timeout = TimeoutMs(reqs[id].auto),
                            ![id].endpoint = Endpoint(reqs[id].auto),
                            ![id].frame_idx = FrameIdxField(reqs[id].auto, reqs[id].idx)]
    /\ ev' = Event("captured", "", reqs[id].manual)
    /\ UNCHANGED <<window, now, scanning, result, isAutoScan, isConnected, logs, frameCounter,
                   fps, activeBox, loops, nreq, alerts>>

CaptureDone(id) == \E p \in Photos : Captured(id, p)

\* ... or rejects
CaptureFail(id) ==
    /\ reqs[id].pc = "capture"
    /\ Fail(id, MsgCapture)

\* await fetch(...) resolves with response.ok: clearTimeout; setIsConnected(true);
\* then await response.json()
ResponseOk(id) ==
    /\ reqs[id].pc = "fetch"
    /\ Commit([St EXCEPT !.isConnected = TRUE])
    /\ reqs' = [reqs EXCEPT ![id].pc = "body", ![id].timeout = 0]
    /\ ev' = Event("response", "", reqs[id].manual)
    /\ UNCHANGED <<window, now, isAutoScan, loops, nreq>>

\* ... resolves with !response.ok: throw new Error(`Status: ...`)
ResponseBad(id) ==
    /\ reqs[id].pc = "fetch"
    /\ Fail(id, MsgStatus)

\* ... rejects with a network error
FetchReject(id) ==
    /\ reqs[id].pc = "fetch"
    /\ Fail(id, MsgNetwork)

\* the abort timer fires (armed after the capture, cleared when fetch resolves):
\* controller.abort() rejects the pending fetch
TimeoutAbort(id) ==
    /\ reqs[id].pc = "fetch"
    /\ reqs[id].timeout > 0
    /\ Fail(id, MsgAbort)

\* await response.json() resolves with data
Parsed(id, data, fast, sample) ==
    /\ reqs[id].pc = "body"
    /\ Commit(OnData(St, reqs[id], data, fast))
    /\ ev' = Feedback(IF Throws(reqs[id], data)
                      THEN Event("failure", MsgType, reqs[id].manual)
                      ELSE Event("applied", OutcomeKind(data), reqs[id].manual),
                      reqs[id], data, sample)
    /\ reqs' = Without(reqs, id)
    /\ loops' = AfterAwait(loops, reqs[id])
    /\ UNCHANGED <<window, now, isAutoScan, nreq>>

BodyParsed(id) == \E data \in Bodies, fast, sample \in BOOLEAN : Parsed(id, data, fast, sample)

\* ... rejects: the body is not JSON
BodyMalformed(id) ==
    /\ reqs[id].pc = "body"
    /\ Fail(id, MsgJson)

Next ==
    \/ ManualTrigger
    \/ ToggleToAuto
    \/ ToggleToManual
    \/ \E l \in DOMAIN loops : TimerFire(l)
    \/ \E id \in DOMAIN reqs : CaptureDone(id)
    \/ \E id \in DOMAIN reqs : CaptureFail(id)
    \/ \E id \in DOMAIN reqs : ResponseOk(id)
    \/ \E id \in DOMAIN reqs : ResponseBad(id)
    \/ \E id \in DOMAIN reqs : FetchReject(id)
    \/ \E id \in DOMAIN reqs : TimeoutAbort(id)
    \/ \E id \in DOMAIN reqs : BodyParsed(id)
    \/ \E id \in DOMAIN reqs : BodyMalformed(id)

Spec == Init /\ [][Next]_vars

\* Timers of the JavaScript runtime fire: a pending setTimeout callback (the
\* loop's next cycle, a request's abort) is eventually run. Nothing makes the
\* camera, the network or the server answer.
LoopTimers == \E l \in DOMAIN loops : TimerFire(l)
AbortTimers == \E id \in DOMAIN reqs : TimeoutAbort(id)
LiveSpec == Spec /\ WF_vars(LoopTimers) /\ WF_vars(AbortTimers)

\* ---------------------------------------------------------------- with a clock
\* Spec lets no time pass: its timers fire at any moment. Here the clock
\* advances between segments, a loop timer fires once its delay has elapsed
\* and processingTime is measured: one auto-scan session from the mount.
Tick(d) ==
    /\ now + d <= MaxNow
    /\ now' = now + d
    /\ ev' = Event("tick", "", FALSE)
    /\ UNCHANGED <<window, scanning, result, isAutoScan, isConnected, logs, frameCounter,
                   fps, activeBox, reqs, loops, nreq, alerts>>

\* setTimeout(loop, delay) was called when lastFrameTime was read
Due(l) == DLeq(DAdd(DInt(loops[l].lastFrameTime), loops[l].delay), DInt(now))

ClockTimerFire(l) == Due(l) /\ TimerFired(l, MaxCycles)

\* const processingTime = Date.now() - startTime; ... processingTime < 100
ClockBodyParsed(id) ==
    \E data \in {d \in Bodies : ~d.match} : Parsed(id, data, now - reqs[id].startTime < 100, FALSE)

ClockNext ==
    \/ \E d \in TickSteps : Tick(d)
    \/ ToggleToAuto
    \/ \E l \in DOMAIN loops : ClockTimerFire(l)
    \/ \E id \in DOMAIN reqs : CaptureDone(id)
    \/ \E id \in DOMAIN reqs : ResponseOk(id)
    \/ \E id \in DOMAIN reqs : FetchReject(id)
    \/ \E id \in DOMAIN reqs : ClockBodyParsed(id)

ClockSpec == Init /\ [][ClockNext]_vars

\* ---------------------------------------------------------------- mapping alone
\* One scan, manual or the first of an auto-scan loop, on any of the devices,
\* with any of the photo sizes and a match carrying any of the boxes: the path
\* of processFrame that computes scale, offsetX, offsetY and scaledBox and
\* applies a match.
MapInit ==
    /\ window \in MapWindows
    /\ now = 0
    /\ scanning = TRUE
    /\ result = NullResult
    /\ isConnected = TRUE
    /\ frameCounter = 0
    /\ fps = 0
    /\ activeBox = NullBox
    /\ nreq = 1
    /\ alerts = 0
    /\ \/ /\ isAutoScan = FALSE
          /\ logs = << <<"MODE", "MANUAL MODE">>, <<"SYS", "SYSTEM INITIALIZED...">>,
                       <<"SYS", "SENSORS ONLINE">> >>
          /\ reqs = With(<<>>, 1, Request(TRUE, FALSE, 0, 0))
          /\ loops = <<>>
          /\ ev = DispatchEvent(TRUE)
       \/ /\ isAutoScan = TRUE
          /\ logs = << <<"MODE", "AUTO-SCAN ENABLED">>, <<"MODE", "MANUAL MODE">>,
                       <<"SYS", "SYSTEM INITIALIZED...">>, <<"SYS", "SENSORS ONLINE">> >>
          /\ reqs = With(<<>>, 1, Request(FALSE, TRUE, 0, 1))
          /\ loops = <<Loop(0)>>
          /\ ev = Event("toAuto", "", FALSE)

MapCaptureDone(id) == \E p \in MapPhotos : Captured(id, p)
MapBodyParsed(id) == \E data \in MapBodies, sample \in BOOLEAN : Parsed(id, data, FALSE, sample)

MapNext ==
    \/ \E id \in DOMAIN reqs : MapCaptureDone(id)
    \/ \E id \in DOMAIN reqs : ResponseOk(id)
    \/ \E id \in DOMAIN reqs : MapBodyParsed(id)

MapSpec == MapInit /\ [][MapNext]_vars

\* ---------------------------------------------------------------- properties
ManualOutstanding == {id \in DOMAIN reqs : reqs[id].manual}
SkipApplied == ev'.op = "applied" /\ ev'.kind = "skipped"
HasBBox(res) == res.kind = "match" /\ res.bbox # NoBBox

\* C1: at most one manual-scan request is outstanding, and while one is
\* outstanding the trigger (available in manual mode) is refused by the guard
\* on the scanning flag, so that it dispatches nothing.
C1_OneManualOutstanding ==
    /\ Cardinality(ManualOutstanding) <= 1
    /\ (~isAutoScan /\ ManualOutstanding # {}) => Refused(scanning, isAutoScan)

\* C2: the completion of a streaming request applied while the mode is Manual
\* leaves latestResult and overlayBox as they were.
C2_LateCompletionNoOp ==
    [][(ev'.op = "applied" /\ ~ev'.manual /\ ~isAutoScan)
        => (result' = result /\ activeBox' = activeBox)]_vars

C4_ToManualClearsOverlay ==
    [][(isAutoScan /\ ~isAutoScan') => ~activeBox'.set]_vars

\* the toggle ran on a session whose latest result has a box, with a request in flight
C4_Witness ==
    ev.op = "toManual" /\ HasBBox(result) /\ ~activeBox.set /\ DOMAIN reqs # {}

\* C5: immediately after the toggle Manual -> Auto overlayBox is null.
C5_ToAutoClearsOverlay ==
    [][(~isAutoScan /\ isAutoScan') => ~activeBox'.set]_vars

\* C6: overlayBox is non-null only if latestResult is non-null and has a bounding box.
C6_OverlayImpliesResultBox == activeBox.set => HasBBox(result)

\* C7: applying a Skipped outcome adds exactly 1 to frameCounter and leaves
\* latestResult and overlayBox unchanged.
C7_SkippedCountsOnly ==
    [][SkipApplied
        => (frameCounter' = frameCounter + 1 /\ result' = result /\ activeBox' = activeBox)]_vars

\* two skips in a row: the counter is 2 and the result is still the initial null
C7_Witness ==
    ev.op = "applied" /\ ev.kind = "skipped" /\ frameCounter = 2 /\ result = NullResult

\* C8: applying a Skipped outcome appends no diagnostic entry, does not change
\* connectivity and raises no alert.
C8_SkippedIsNoFailure ==
    [][SkipApplied
        => (logs' = logs /\ isConnected' = isConnected /\ alerts' = alerts)]_vars

C8_Witness ==
    ev.op = "applied" /\ ev.kind = "skipped" /\ isConnected /\ logs[1][1] # "ERROR"

\* C9: a Failure of a streaming request raises no alert, a Failure of a manual
\* request raises exactly one, whatever the cause.
C9_AlertIffManualFailure ==
    [][(ev'.op = "failure")
        => (alerts' = IF ev'.manual THEN alerts + 1 ELSE alerts)]_vars

\* a manual failure has alerted, and a streaming failure after it has not
C9_Witness ==
    ev.op = "failure" /\ ~ev.manual /\ alerts = 1

\* C10: after a request has ended with a bad status, a network error, an abort
\* or an unparseable body, connectivity is Offline and the newest diagnostic
\* entry is the ERROR entry with (the first 20 characters of) the cause.
C10_FailureOfflineAndLogged ==
    ev.op = "failure"
        => (~isConnected /\ logs[1] = <<"ERROR", Substring20(ev.kind)>>)

\* the body of a response that had set Online turned out unparseable
C10_Witness ==
    ev.op = "failure" /\ ev.kind = MsgJson /\ ~isConnected /\ logs[1][1] = "ERROR"

\* C11: while the mode stays Auto, after a streaming request has failed and left
\* the live loop without a request in flight, the loop dispatches another
\* streaming submission (as long as the dispatch budget of the model lasts).
LiveLoopIdle ==
    /\ isAutoScan
    /\ \E l \in DOMAIN loops :
          loops[l].isActive /\ \A id \in DOMAIN reqs : reqs[id].loop # l
StreamDispatched == ev.op = "dispatch" /\ ~ev.manual

C11_FailedFrameRearms ==
    (ev.op = "failure" /\ ~ev.manual /\ LiveLoopIdle /\ nreq < MaxReq)
        ~> (StreamDispatched \/ ~isAutoScan)

\* the loop's timer dispatched the next frame right after the failed one
C11_Witness ==
    StreamDispatched /\ isAutoScan /\ nreq = 2 /\ logs[1][1] = "ERROR" /\ ~isConnected

\* C12: the diagnostic log never holds more than 6 entries; every segment that
\* changes it puts its new entries in front, keeps the older entries in their
\* order behind them and drops only the oldest ones beyond the 6th place.
IsShift(old, new, k) ==
    /\ Len(new) = Min(Len(old) + k, 6)
    /\ \A i \in (k + 1)..Len(new) : new[i] = old[i - k]

C12_LogBoundedNewestFirst ==
    [][/\ Len(logs') <= 6
       /\ logs' # logs => \E k \in 1..3 : IsShift(logs, logs', k)]_vars

\* the 7th entry has been added: the first one (SENSORS ONLINE) is gone and the
\* second one is now the oldest
C12_Witness ==
    Len(logs) = 6 /\ logs[6] = <<"SYS", "SYSTEM INITIALIZED...">>

\* C13: the abort timer of a manual request is armed with 15000 ms while its
\* upload is pending; when it fires the request resolves as a failure: the
\* alert is raised, connectivity is Offline and scanning is Idle.
ManualTimedOut == ev'.op = "failure" /\ ev'.kind = MsgAbort /\ ev'.manual

C13_ManualTimeoutFails ==
    [][/\ \A id \in DOMAIN reqs' :
             (reqs'[id].manual /\ reqs'[id].pc = "fetch") => reqs'[id].timeout = 15000
       /\ ManualTimedOut =>
             /\ ManualOutstanding' # ManualOutstanding
             /\ alerts' = alerts + 1
             /\ ~isConnected'
             /\ ~scanning']_vars

C13_Witness ==
    /\ ev.op = "failure" /\ ev.kind = MsgAbort /\ ev.manual
    /\ alerts = 1 /\ ~isConnected /\ ~scanning /\ ManualOutstanding = {}

\* C14: every dispatched submission eventually resolves (it leaves the set of
\* pending requests through exactly one outcome), even when the camera or the
\* reading of the body never answers.
C14_EveryRequestResolves ==
    \A id \in 1..MaxReq : (id \in DOMAIN reqs) ~> (id \notin DOMAIN reqs)

\* the part of C14 the abort timer does give: a pending upload does not last
C14_UploadBounded ==
    \A id \in 1..MaxReq :
        (id \in DOMAIN reqs /\ reqs[id].pc = "fetch")
            ~> (id \notin DOMAIN reqs \/ reqs[id].pc = "body")

\* C15: while a cycle's submission of the live loop is in flight, the timer of
\* the next cycle is already armed (the delay runs from the issue of the
\* submission, not from its completion).
C15_NextCycleArmedAtIssue ==
    \A id \in DOMAIN reqs :
        (reqs[id].loop # 0 /\ loops[reqs[id].loop].isActive)
            => loops[reqs[id].loop].pc = "timer"

\* what the loop does instead: one loop instance never has two submissions in
\* flight, and none while its timer is pending
C15_CyclesSerialized ==
    /\ \A i, j \in DOMAIN reqs : (reqs[i].loop # 0 /\ reqs[i].loop = reqs[j].loop) => i = j
    /\ \A id \in DOMAIN reqs : reqs[id].loop # 0 => loops[reqs[id].loop].pc = "await"

\* C16: a completion carrying a result is applied when it arrives, whatever its
\* frame index: right after it, result and activeBox are those of that
\* completion (the box of its bbox, no box when it has none).
ResultOf(data) == IF data.match THEN MatchResult(data) ELSE NoMatchResult
BoxOf(photo, data) ==
    IF data.match /\ data.bbox # NoBBox
    THEN Box(ScaledBoxes[<<window, photo, data.bbox>>], data.label)
    ELSE NullBox

C16_LastArrivalWins ==
    [][(ev'.op = "applied" /\ ev'.kind # "skipped") =>
          \E id \in DOMAIN reqs \ DOMAIN reqs' : \E data \in Bodies :
              /\ ~data.skipped
              /\ result' = ResultOf(data)
              /\ activeBox' = BoxOf(reqs[id].photo, data)]_vars

\* the same with the box of a boxless match left as it was: the order of
\* arrival alone decides, never the frame index
C16_LastArrivalWinsButBoxless ==
    [][(ev'.op = "applied" /\ ev'.kind # "skipped") =>
          \E id \in DOMAIN reqs \ DOMAIN reqs' : \E data \in Bodies :
              /\ ~data.skipped
              /\ result' = ResultOf(data)
              /\ activeBox' = IF data.match /\ data.bbox = NoBBox
                               THEN activeBox
                               ELSE BoxOf(reqs[id].photo, data)]_vars

\* C17: a streaming submission is dispatched only in Auto mode and only by the
\* loop of the current Auto session; once the mode has left Auto every loop is
\* inactive, so a timer that fires then dispatches nothing.
C17_NoStreamDispatchOutsideAuto ==
    /\ StreamDispatched =>
          /\ isAutoScan
          /\ reqs[nreq].loop = Len(loops)
          /\ loops[Len(loops)].isActive
    /\ ~isAutoScan => \A l \in DOMAIN loops : ~loops[l].isActive
    /\ \A l \in DOMAIN loops : loops[l].isActive => l = Len(loops)

C17_Witness ==
    ev.op = "loopExit" /\ ~isAutoScan /\ nreq = 1 /\ reqs = <<>>

\* C18: once the mode has left Auto no timer armed by a scan loop is pending.
C18_NoDanglingTimer ==
    ~isAutoScan => \A l \in DOMAIN loops : loops[l].pc # "timer"

\* C19: the box drawn for a match is (x1*s+ox, y1*s+oy, x2*s+ox, y2*s+oy) with
\* s = max(viewW/imgW, viewH/imgH), ox = (viewW - imgW*s)/2 and
\* oy = (viewH - imgH*s)/2, every operation that of JavaScript numbers; for a
\* 640x480 photo on a 1080x1920 screen and the box [100,100,200,200] it is
\* s = 4, ox = -740, oy = 0 and [-340, 400, 60, 800].
Positive(img) == img[1] > 0 /\ img[2] > 0

Expected(view, img, b) ==
    LET sx == DivInt(view[1], img[1])
        sy == DivInt(view[2], img[2])
        s == IF DLeq(sx, sy) THEN sy ELSE sx
        ox == DHalf(DSub(DInt(view[1]), DMul(DInt(img[1]), s)))
        oy == DHalf(DSub(DInt(view[2]), DMul(DInt(img[2]), s)))
    IN  [s |-> s, ox |-> ox, oy |-> oy,
         box |-> << DAdd(DMul(DInt(b[1]), s), ox), DAdd(DMul(DInt(b[2]), s), oy),
                    DAdd(DMul(DInt(b[3]), s), ox), DAdd(DMul(DInt(b[4]), s), oy) >>]

C19_BoxIsMapped ==
    [][\A id \in DOMAIN reqs \ DOMAIN reqs' :
          (/\ ev'.op = "applied"
           /\ HasBBox(result') /\ Len(result'.bbox) = 4
           /\ Positive(reqs[id].photo)) =>
             LET img == reqs[id].photo
                 e == Expected(window, img, result'.bbox)
             IN  /\ activeBox'.set
                 /\ activeBox'.bbox = e.box
                 /\ Scale(window, img) = e.s
                 /\ OffsetX(window, img) = e.ox
                 /\ OffsetY(window, img) = e.oy
                 /\ (/\ window = <<1080, 1920>>
                     /\ img = <<640, 480>>
                     /\ result'.bbox = <<100, 100, 200, 200>>)
                    => /\ e.s = DInt(4) /\ e.ox = DInt(-740) /\ e.oy = Zero
                       /\ activeBox'.bbox = <<DInt(-340), DInt(400), DInt(60), DInt(800)>>]_vars

C19_Witness ==
    /\ window = <<1080, 1920>>
    /\ result.bbox = <<100, 100, 200, 200>>
    /\ activeBox.bbox = <<DInt(-340), DInt(400), DInt(60), DInt(800)>>

\* C20: for every photo taken, scale is at least each of the two quotients,
\* both offsets are at most 0 and one of them is exactly 0.
Mapped == {id \in DOMAIN reqs : Positive(reqs[id].photo)}
Covers(view, img) ==
    /\ DLeq(DivInt(view[1], img[1]), Scale(view, img))
    /\ DLeq(DivInt(view[2], img[2]), Scale(view, img))

C20_OffsetsNonPositive ==
    \A id \in Mapped :
        LET img == reqs[id].photo
        IN  /\ Covers(window, img)
            /\ DLeq(OffsetX(window, img), Zero)
            /\ DLeq(OffsetY(window, img), Zero)
            /\ (OffsetX(window, img) = Zero \/ OffsetY(window, img) = Zero)

\* C20 as the arithmetic of doubles allows it: scale is at least each
\* quotient; an offset exceeds 0 by no more than v * 2^-53, v the screen
\* dimension of its axis, and one of the two is that close to 0.
DAbs(x) == <<x[1] * x[1], x[2], x[3]>>
RoundingBound(v) == Canon(1, NatBits(v), -Prec)

C20_OffsetsNonPositiveUpToRounding ==
    \A id \in Mapped :
        LET img == reqs[id].photo
            ox == OffsetX(window, img)
            oy == OffsetY(window, img)
        IN  /\ Covers(window, img)
            /\ DLeq(ox, RoundingBound(window[1]))
            /\ DLeq(oy, RoundingBound(window[2]))
            /\ \/ DLeq(DAbs(ox), RoundingBound(window[1]))
               \/ DLeq(DAbs(oy), RoundingBound(window[2]))

\* a photo whose offsets are both above 0
C20_Witness ==
    \E id \in Mapped :
        /\ OffsetX(window, reqs[id].photo)[1] = 1
        /\ OffsetY(window, reqs[id].photo)[1] = 1

\* C21: a request whose photo has width 0 or height 0 ends as a failure and
\* leaves the overlay box as it was.
C21_EmptyFrameFails ==
    [][\A id \in DOMAIN reqs \ DOMAIN reqs' :
          (reqs[id].photo[1] = 0 \/ reqs[id].photo[2] = 0) =>
             ev'.op = "failure" /\ activeBox' = activeBox]_vars

\* every coordinate of the overlay box is a finite number
C21_OverlayFinite ==
    activeBox.set => \A i \in 1..4 : IsFinite(activeBox.bbox[i])

\* C22: the box of the whole image, [0, 0, imgW, imgH], is drawn with its
\* corners at (0, 0) and (viewW, viewH).
FullImage(img) == <<0, 0, img[1], img[2]>>

C22_FullImageIsViewport ==
    [][\A id \in DOMAIN reqs \ DOMAIN reqs' :
          (/\ ev'.op = "applied"
           /\ Positive(reqs[id].photo)
           /\ result'.bbox = FullImage(reqs[id].photo))
          => activeBox'.bbox = <<Zero, Zero, DInt(window[1]), DInt(window[2])>>]_vars

\* C22 as the code maps it: the box of the whole image contains the screen,
\* centred on it, and touches it on one axis; every comparison up to
\* v * 2^-50, v the screen dimension of the axis.
CoverTolerance(v) == Canon(1, NatBits(v), -50)
Near(x, v, tol) == DLeq(DAbs(DSub(x, DInt(v))), tol)

C22_FullImageContainsViewport ==
    [][\A id \in DOMAIN reqs \ DOMAIN reqs' :
          (/\ ev'.op = "applied"
           /\ Positive(reqs[id].photo)
           /\ result'.bbox = FullImage(reqs[id].photo))
          => LET b == activeBox'.bbox
                 tx == CoverTolerance(window[1])
                 ty == CoverTolerance(window[2])
             IN  /\ activeBox'.set
                 /\ DLeq(b[1], tx) /\ DLeq(b[2], ty)
                 /\ DLeq(DSub(DInt(window[1]), tx), b[3])
                 /\ DLeq(DSub(DInt(window[2]), ty), b[4])
                 /\ Near(DAdd(b[1], b[3]), window[1], tx)
                 /\ Near(DAdd(b[2], b[4]), window[2], ty)
                 /\ \/ Near(b[1], 0, tx) /\ Near(b[3], window[1], tx)
                    \/ Near(b[2], 0, ty) /\ Near(b[4], window[2], ty)]_vars

\* the whole 640x480 image on a 1080x1920 screen: 740 points beyond the
\* screen on either side
C22_Witness ==
    /\ window = <<1080, 1920>>
    /\ result.bbox = <<0, 0, 640, 480>>
    /\ activeBox.bbox = <<DInt(-740), Zero, DInt(1820), DInt(1920)>>

\* C23: a manual request is fetched from /predict with a 15000 ms abort timer
\* and no frame_idx field, a streaming request from /stream with a 5000 ms
\* abort timer and a frame_idx field, whatever the mode is by then.
Sent == {id \in DOMAIN reqs : reqs[id].pc \in {"fetch", "body"}}

C23_RequestShapeByMode ==
    \A id \in Sent :
        LET r == reqs[id]
        IN  IF r.manual
            THEN /\ r.endpoint = "/predict"
                 /\ r.frame_idx = NoFrameIdx
                 /\ r.pc = "fetch" => r.timeout = 15000
            ELSE /\ r.endpoint = "/stream"
                 /\ r.frame_idx # NoFrameIdx
                 /\ r.pc = "fetch" => r.timeout = 5000

\* a manual and a streaming request both awaiting fetch, after the toggle
\* back to manual mode
C23_Witness ==
    /\ ~isAutoScan
    /\ \E a, b \in DOMAIN reqs :
          /\ reqs[a].manual /\ reqs[a].pc = "fetch"
          /\ ~reqs[b].manual /\ reqs[b].pc = "fetch"

\* C24: when a match or a no-match response is applied the connectivity flag
\* is online afterwards; a no-match leaves the neutral result and no box, a
\* match leaves its result and, if it has a bbox, the mapped box with its label.
SuccessApplied == ev'.op = "applied" /\ ev'.kind \in {"match", "nomatch"}

C24_SuccessEffects ==
    [][\A id \in DOMAIN reqs \ DOMAIN reqs' :
          SuccessApplied =>
             /\ isConnected'
             /\ ev'.kind = "nomatch" => result' = NoMatchResult /\ activeBox' = NullBox
             /\ ev'.kind = "match" =>
                   /\ result'.kind = "match"
                   /\ HasBBox(result') =>
                         activeBox' = Box(ScaledBox(window, reqs[id].photo, result'.bbox),
                                          result'.label)]_vars

\* the same without the connectivity flag
C24_SuccessEffectsOnResultAndBox ==
    [][\A id \in DOMAIN reqs \ DOMAIN reqs' :
          SuccessApplied =>
             /\ ev'.kind = "nomatch" => result' = NoMatchResult /\ activeBox' = NullBox
             /\ ev'.kind = "match" =>
                   /\ result'.kind = "match"
                   /\ HasBBox(result') =>
                         activeBox' = Box(ScaledBox(window, reqs[id].photo, result'.bbox),
                                          result'.label)]_vars

\* C25: a response body that is not JSON, or whose best_match has no label or
\* a bbox that is not four numbers, ends as a failure that leaves the result
\* and the overlay box as they were; nothing of such a body is applied.
BodyFailure == ev'.op = "failure" /\ ev'.kind \in {MsgJson, MsgType}

C25_MalformedNeverSurfaces ==
    [][\A id \in DOMAIN reqs \ DOMAIN reqs' :
          Positive(reqs[id].photo) =>
             /\ BodyFailure => result' = result /\ activeBox' = activeBox
             /\ ev'.op = "applied" =>
                   result'.label # NoLabel /\ Len(result'.bbox) \in {0, 4}]_vars

\* the part of C25 about a body that is not JSON
C25_UnparseableFails ==
    [][\A id \in DOMAIN reqs \ DOMAIN reqs' :
          reqs[id].pc = "body" /\ ev'.op = "failure" =>
             ev'.kind = MsgJson /\ result' = result /\ activeBox' = activeBox]_vars

\* C26: in manual mode the scanning flag is set exactly while one manual
\* request is outstanding.
C26_BusyIffManualOutstanding ==
    ~isAutoScan => (scanning <=> Cardinality(ManualOutstanding) = 1)

\* the two directions of C26
C26_BusyOnlyWithManualOutstanding ==
    (~isAutoScan /\ scanning) => ManualOutstanding # {}
C26_IdleOnlyWithoutManualOutstanding ==
    (~isAutoScan /\ ~scanning) => ManualOutstanding = {}

\* C27: the delay computed at the top of a cycle is
\* max(0, 1000/15 - elapsed), elapsed the time since the top of the previous
\* cycle of the loop, and lies between 0 and 1000/15.
CycleStarts(l) == loops[l].pc = "timer" /\ loops'[l].pc = "await"

C27_DelayFromPreviousStart ==
    [][\A l \in DOMAIN loops :
          CycleStarts(l) =>
             LET elapsed == loops'[l].now - loops[l].now
                 delay == loops'[l].delay
             IN  /\ delay = DMax(Zero, DSub(DivInt(1000, 15), DInt(elapsed)))
                 /\ DLeq(Zero, delay)
                 /\ DLeq(delay, DivInt(1000, 15))]_vars

\* the delay as the code computes it: elapsed is the time since the previous
\* frame of the loop completed
C27_DelayFromLastCompletion ==
    [][\A l \in DOMAIN loops :
          CycleStarts(l) =>
             LET elapsed == loops'[l].now - loops[l].lastFrameTime
                 delay == loops'[l].delay
             IN  /\ delay = DMax(Zero, DSub(DivInt(1000, 15), DInt(elapsed)))
                 /\ DLeq(Zero, delay)
                 /\ DLeq(delay, DivInt(1000, 15))]_vars

\* C28: the box a completion sets is mapped with the dimensions of the photo
\* its own request captured, not with those of another request in flight
\* whose photo has other dimensions.
OthersInFlight(id) ==
    {o \in DOMAIN reqs \ {id} :
        reqs[o].photo # NoPhoto /\ reqs[o].photo # reqs[id].photo}

C28_BoxFromOwnFrame ==
    [][\A id \in DOMAIN reqs \ DOMAIN reqs' :
          (ev'.op = "applied" /\ ev'.kind = "match" /\ HasBBox(result')) =>
             \A o \in OthersInFlight(id) :
                /\ activeBox'.bbox = ScaledBoxes[<<window, reqs[id].photo, result'.bbox>>]
                /\ activeBox'.bbox # ScaledBoxes[<<window, reqs[o].photo, result'.bbox>>]]_vars

\* a box mapped from a 640x480 frame is on screen while a request that
\* captured a 1080x1920 frame is in flight, one of the two manual and the
\* other streaming
C28_Witness ==
    /\ HasBBox(result)
    /\ activeBox.bbox = ScaledBox(window, <<640, 480>>, result.bbox)
    /\ ev.op = "applied" /\ ev.kind = "match"
    /\ \E o \in DOMAIN reqs :
          /\ reqs[o].photo = <<1080, 1920>>
          /\ reqs[o].manual # ev.manual

\* C29: frameCounter never decreases, changes by 1 at a time, and changes only
\* when a streaming request is applied as skipped, match or no match.
C29_CounterAutoOnly ==
    [][frameCounter' # frameCounter =>
          /\ frameCounter' = frameCounter + 1
          /\ ev'.op = "applied"
          /\ ~ev'.manual]_vars

\* the counter as the code steps it: by 1, when a response is applied, and
\* for a manual request only when the response is a skip
C29_CounterSteps ==
    [][frameCounter' # frameCounter =>
          /\ frameCounter' = frameCounter + 1
          /\ ev'.op = "applied"
          /\ ev'.manual => ev'.kind = "skipped"]_vars

\* C30: a streaming request is dispatched with the current frameCounter as the
\* frame_idx it will send.
C30_FrameIdxIsCounter ==
    [][\A id \in DOMAIN reqs' \ DOMAIN reqs :
          ~reqs'[id].manual =>
             FrameIdxField(reqs'[id].auto, reqs'[id].idx) = frameCounter]_vars

\* what is sent is what the request was dispatched with
C30_SentAsDispatched ==
    \A id \in Sent : ~reqs[id].manual => reqs[id].frame_idx = reqs[id].idx

\* C31: metrics.fps reaches only the displayed rate and the log. Whatever fps
\* a response carries, and whatever rate and log earlier responses left, every
\* segment writes the same scanning flag, result, connectivity, counter, box
\* and alerts; the requests in flight, the loops, their timers and delays are
\* written from none of these.
FpsBlind(s) == [s EXCEPT !.fps = 0, !.logs = <<>>]
OtherRuns == {[St EXCEPT !.fps = g, !.logs = l] : g \in FpsValues, l \in {logs, <<>>}}

C32_ToggleCancelsNothing ==
    [][/\ (isAutoScan /\ ~isAutoScan') => reqs' = reqs
       /\ \A id \in DOMAIN reqs \ DOMAIN reqs' :
             /\ ev'.op \in {"applied", "failure"}
             /\ ev'.manual = reqs[id].manual
             /\ (ev'.kind = MsgAbort /\ ~reqs[id].manual) =>
                   reqs[id].pc = "fetch" /\ reqs[id].timeout = 5000]_vars

\* in manual mode, a streaming request dispatched before the toggle has just
\* been answered
C32_Witness ==
    /\ ~isAutoScan
    /\ ev.op = "applied" /\ ~ev.manual
    /\ \E l \in DOMAIN loops : ~loops[l].isActive /\ loops[l].pc = "done"

\* C33: after a request has ended, the connectivity flag is offline if it
\* ended as a failure and online if its response (a result or a skip) was
\* applied.
C33_ConnectivityIsLastOutcome ==
    [][\A id \in DOMAIN reqs \ DOMAIN reqs' :
          /\ ev'.op = "failure" => ~isConnected'
          /\ ev'.op = "applied" => isConnected']_vars

\* the parts of C33 that hold: a failure leaves the flag offline, and a
\* response with an ok status sets it online when it arrives, whatever it was
C33_RecoversOnResponse ==
    [][/\ ev'.op = "failure" => ~isConnected'
       /\ ev'.op = "response" => isConnected']_vars

\* C34: when a streaming request ends as a failure, result, overlay box and
\* frameCounter are as they were before.
StreamFailure == ev'.op = "failure" /\ ~ev'.manual

C34_StreamFailureKeepsTarget ==
    [][\A id \in DOMAIN reqs \ DOMAIN reqs' :
          StreamFailure =>
             /\ result' = result
             /\ activeBox' = activeBox
             /\ frameCounter' = frameCounter]_vars

\* C34 for the failures raised before the response body is used
C34_EarlyFailureKeepsTarget ==
    [][\A id \in DOMAIN reqs \ DOMAIN reqs' :
          (StreamFailure /\ ev'.kind # MsgType) =>
             /\ result' = result
             /\ activeBox' = activeBox
             /\ frameCounter' = frameCounter
             /\ alerts' = alerts
             /\ fps' = fps]_vars

\* C35: at most one loop instance has its flag set, in auto mode the one
\* started last; a loop whose flag was cleared dispatches no request and arms
\* no timer again.
LiveLoops == {l \in DOMAIN loops : loops[l].isActive}

C35_OneLiveLoop ==
    [][/\ Cardinality(LiveLoops) <= 1
       /\ isAutoScan => LiveLoops = {Len(loops)}
       /\ \A l \in DOMAIN loops \ LiveLoops :
             /\ ~loops'[l].isActive
             /\ \A id \in DOMAIN reqs' \ DOMAIN reqs : reqs'[id].loop # l
             /\ loops'[l].pc = "timer" => loops[l].pc = "timer"
             /\ loops[l].pc = "done" => loops'[l].pc = "done"]_vars

\* auto, manual, auto again: the first loop's pending timer has fired and the
\* loop has returned, the second loop is awaiting its frame
C35_Witness ==
    /\ isAutoScan
    /\ Len(loops) = 2
    /\ ev.op = "loopExit"
    /\ loops[1].pc = "done"
    /\ loops[2].isActive /\ loops[2].pc = "await"

\* C36: a loop dispatches its next frame only when the frame before has ended,
\* so that a loop never has more than one request in flight.
InFlightOf(l) == {id \in DOMAIN reqs : reqs[id].loop = l}

Fresh == [St EXCEPT !.logs = <<>>]
Unlabelled == {d \in MapBodies : d.label = NoLabel}
Detected(s) == Cardinality({k \in 1..Len(s.logs) : s.logs[k][1] = "DETECTED"})

C37_DetectedOnStreamMatch ==
    /\ \A m \in BOOLEAN : Detected(OnDispatch(Fresh, m)) = 0
    /\ Detected(OnEnterAuto(Fresh)) = 0
    /\ Detected(OnEnterManual(Fresh)) = 0
    /\ \A id \in DOMAIN reqs :
          /\ \A msg \in {MsgCapture, MsgNetwork, MsgAbort, MsgStatus, MsgJson} :
                Detected(OnCatch(Fresh, reqs[id], msg)) = 0
          /\ reqs[id].pc = "body" =>
                \A d \in Bodies \cup Unlabelled, fast \in BOOLEAN :
                    Detected(OnData(Fresh, reqs[id], d, fast))
                       = IF /\ ~reqs[id].manual
                            /\ OutcomeKind(d) = "match"
                            /\ ~Throws(reqs[id], d)
                         THEN 1 ELSE 0

\* a streaming match has been logged, and a manual match has been applied
\* after it without a second entry
C37_Witness ==
    /\ ev.op = "applied" /\ ev.kind = "match" /\ ev.manual
    /\ Cardinality({k \in 1..Len(logs) : logs[k][1] = "DETECTED"}) = 1

\* C38: the target-confirmed feedback of a match is the success haptic and the
\* spoken "Target Confirmed. <label>". Every manual match applied emits it; for
\* a streaming request about to apply a match there is an outcome of the
\* sample with which none of it is emitted; and a streaming response without a
\* match emits no feedback at all.
TargetConfirmed(e) == e.haptic = "success" \/ e.speech # NoSpeech

Emitted(r, data, sample) == Feedback(Event("applied", OutcomeKind(data), r.manual), r, data, sample)

Matches == {d \in Bodies \cup MapBodies : OutcomeKind(d) = "match"}

C38_AutoFeedbackSampled ==
    \A id \in DOMAIN reqs :
        reqs[id].pc = "body" =>
            IF reqs[id].manual
            THEN \A d \in Matches, sample \in BOOLEAN :
                     TargetConfirmed(Emitted(reqs[id], d, sample))
            ELSE /\ \A d \in Matches :
                        \E sample \in BOOLEAN : ~TargetConfirmed(Emitted(reqs[id], d, sample))
                 /\ \E d \in Bodies : \A sample \in BOOLEAN :
                        /\ ~TargetConfirmed(Emitted(reqs[id], d, sample))
                        /\ Emitted(reqs[id], d, sample).haptic = "none"

\* C38, the announcement alone: every manual match applied is announced with
\* its label, and a streaming match is announced or not with the sample
C38_AnnouncementSampled ==
    /\ \A id \in DOMAIN reqs :
          reqs[id].pc = "body" =>
              \A d \in Matches :
                  /\ reqs[id].manual =>
                        \A sample \in BOOLEAN :
                            Emitted(reqs[id], d, sample).speech = <<"Target Confirmed", d.label>>
                  /\ ~reqs[id].manual =>
                        /\ Emitted(reqs[id], d, FALSE).speech = NoSpeech
                        /\ Emitted(reqs[id], d, TRUE).speech = <<"Target Confirmed", d.label>>
    /\ ev.kind = "match" =>
          /\ ev.manual => ev.speech = <<"Target Confirmed", result.label>>
          /\ ev.speech # NoSpeech => ev.speech[1] = "Target Confirmed"

\* C38: every match applied, streaming ones included, fires the success haptic
C38_EveryMatchHaptic ==
    (ev.op = "applied" /\ ev.kind = "match") => ev.haptic = "success"

\* a streaming match has been applied without the announcement
C38_SilentStreamMatch ==
    ev.op = "applied" /\ ev.kind = "match" /\ ~ev.manual /\ ev.speech = NoSpeech

====
